---- MODULE Spec2Model ----
(***************************************************************************)
(* SmartRequestQueueManager (src/analysis/queue_manager.py): three         *)
(* priority lanes, a TTL cache, a sliding-window rate limiter and the      *)
(* batch executor with its retry policy.                                   *)
(*                                                                         *)
(* Time is counted in tenths of a second, so that the 0.1 s margin of      *)
(* _calculate_wait_time is one unit: 60 s is 600, the default TTL of 300 s *)
(* is 3000.  time.time() is the variable now.                              *)
(*                                                                         *)
(* A request (the dict built by add_request) is identified by its          *)
(* position in the sequence requests: the lanes hold these positions, as   *)
(* the deques hold references to the dicts.  The fields func/args/kwargs   *)
(* are the opaque operation, modelled by the outcome chosen when the call  *)
(* returns; the field timestamp and stats['queue_times'] /                 *)
(* stats['avg_response_time'] are written and never read by the logic and  *)
(* are left out.                                                           *)
(***************************************************************************)
EXTENDS Integers, Sequences, FiniteSets, TLC

\* ---------------------------------------------------------------- bounds

\* max_requests_per_minute given to the constructor (default 45).
MaxRequestsPerMinute == 1
\* Number of add_request calls explored.
MaxItems == 2
\* time.time() at construction, and how far the clock is explored beyond it.
StartTime == 100000
Horizon == 300
\* Number of cache hits explored when the cache is called directly.
MaxHits == 2

\* ------------------------------------------------------ program constants

Window == 600
Margin == 1
DefaultTtl == 3000
MaxAttempts == 3
\* request_interval=1.5, in milliseconds
DefaultInterval == 1500
\* auto_adjust_rates: the cap and the floor of request_interval, in
\* milliseconds, and the thresholds of its two branches.
MaxInterval == 3000
MinInterval == 1000
HitsThreshold == 5
CompletedThreshold == 20

\* ----------------------------------------------------------------- inputs

\* The threads that can call process_batch; MainWorkers are the ones that do
\* where one thread runs the batches.
Workers == {"w1", "w2"}
MainWorkers == {"w1"}
Priorities == <<"high", "normal", "low">>
PrioritySet == {"high", "normal", "low"}
\* cache_key=None
Absent == "<absent>"
CacheKeys == {Absent, "X"}
Ids == {"a", "b"}
Ttls == {300}
Timeouts == {300}
BatchSizes == {1, 2}
TickSteps == {300}
\* What an operation can do when called: return data, return None, raise.
NoneVal == "None"
ErrorVal == "error"
Outcomes == {"data", NoneVal, ErrorVal}
NoRequest == 0
\* "_request_manager = None" (line 239); the instances are numbered from 1 in
\* the order of their construction.
NoManager == 0
\* The threads that call get_request_manager.
Callers == {"t1", "t2", "t3"}

VARIABLES
    max_requests_per_minute,  \* self.max_requests_per_minute
    request_interval, \* self.request_interval, in milliseconds
    now,              \* time.time()
    queues,           \* self.queues: lane -> sequence of request positions
    requests,         \* the request dicts, by position
    cache,            \* self.cache
    cache_ttl,        \* self.cache_ttl
    stats,            \* self.stats counters
    request_history,  \* self.request_history, deque(maxlen=max_requests_per_minute)
    lock,             \* self.lock: "free" or its holder
    unique_requests,  \* optimize_queues: the low lane's dict between loop and assignment
                      \* (values), and the length of the lane the loop went through (seen)
    pc,               \* per worker, the position in process_batch
    batch,            \* per worker, batch_size / timeout / start_time of the running call
    processed,        \* per worker
    results,          \* per worker, the results dict
    request,          \* per worker, the dequeued request
    wake,             \* per worker, the end of time.sleep(wait_time)
    request_start,    \* per worker
    remaining,        \* per worker, the 'remaining' of the last return
    loaded,           \* per worker, the counter value read by a "+= 1" not yet stored
    hist,             \* history of the run, read by the properties only
    request_manager,  \* the module's global _request_manager
    instances,        \* the number of SmartRequestQueueManager() constructed by line 245
    caller_pc,        \* per caller, the position in get_request_manager
    held              \* per caller, the instance its last call returned

vars == <<max_requests_per_minute, request_interval, now, queues, requests, cache,
          cache_ttl, stats, request_history, lock, unique_requests, pc, batch,
          processed, results, request, wake, request_start, remaining, loaded, hist,
          request_manager, instances, caller_pc, held>>

\* The module's global and the threads that call get_request_manager.
moduleVars == <<request_manager, instances, caller_pc, held>>

configVars == <<max_requests_per_minute, request_interval>>

queueVars == <<queues, requests>>
cacheVars == <<cache, cache_ttl>>
workerVars == <<pc, batch, processed, results, request, wake, request_start, remaining,
                loaded>>

\* ---------------------------------------------------------------- helpers

EmptyDict == [x \in {} |-> 0]
DictSet(d, k, v) == [x \in (DOMAIN d) \cup {k} |-> IF x = k THEN v ELSE d[x]]
DictDel(d, k) == [x \in (DOMAIN d) \ {k} |-> d[x]]
Max(a, b) == IF a >= b THEN a ELSE b
Min(a, b) == IF a <= b THEN a ELSE b

\* f"{cache_key}_ttl"
TtlKey(cache_key) == cache_key \o "_ttl"

\* ------------------------------------------------------------------ cache

\* A cache that hands out an entry once and forgets it.
GetFromCacheOnce(c, ct, cache_key, t) ==
    IF cache_key \notin DOMAIN c
    THEN [ret |-> NoneVal, raised |-> FALSE, hit |-> FALSE, cache |-> c, cache_ttl |-> ct]
    ELSE [ret |-> c[cache_key], raised |-> FALSE, hit |-> TRUE,
          cache |-> DictDel(c, cache_key), cache_ttl |-> ct]

\* get_from_cache: the value returned (NoneVal for None), whether a KeyError
\* escaped, whether cached_responses was incremented, and the two dicts after.
GetFromCache(c, ct, cache_key, t) ==
    IF cache_key \notin DOMAIN c
    THEN [ret |-> NoneVal, raised |-> FALSE, hit |-> FALSE, cache |-> c, cache_ttl |-> ct]
    ELSE LET cache_time == IF cache_key \in DOMAIN ct THEN ct[cache_key] ELSE 0
             ttl == IF TtlKey(cache_key) \in DOMAIN ct THEN ct[TtlKey(cache_key)]
                    ELSE DefaultTtl
             c1 == DictDel(c, cache_key)
             ct1 == DictDel(ct, cache_key)
         IN  IF t - cache_time < ttl
             THEN [ret |-> c[cache_key], raised |-> FALSE, hit |-> TRUE,
                   cache |-> c, cache_ttl |-> ct]
             ELSE IF cache_key \notin DOMAIN ct
             THEN [ret |-> NoneVal, raised |-> TRUE, hit |-> FALSE,
                   cache |-> c1, cache_ttl |-> ct]
             ELSE IF TtlKey(cache_key) \notin DOMAIN ct1
             THEN [ret |-> NoneVal, raised |-> TRUE, hit |-> FALSE,
                   cache |-> c1, cache_ttl |-> ct1]
             ELSE [ret |-> NoneVal, raised |-> FALSE, hit |-> FALSE,
                   cache |-> c1, cache_ttl |-> DictDel(ct1, TtlKey(cache_key))]

\* set_cache: the cache_ttl dict after the two assignments, in order.
SetCacheTtl(ct, cache_key, ttl, t) ==
    DictSet(DictSet(ct, cache_key, t), TtlKey(cache_key), ttl)

\* ----------------------------------------------------------- rate limiter

RECURSIVE Prune(_, _)
\* The pruning loop of _can_make_request and get_status.
Prune(h, t) ==
    IF h # <<>> /\ t - Head(h) > Window THEN Prune(Tail(h), t) ELSE h

\* _can_make_request, on the pruned history.
CanMakeRequest(h) == Len(h) < max_requests_per_minute

\* _calculate_wait_time
CalculateWaitTime(h, t) ==
    IF h = <<>> THEN 0 ELSE Max(0, (Window - (t - Head(h))) + Margin)

\* deque(maxlen=max_requests_per_minute).append
HistoryAppend(h, t) ==
    LET full == Append(h, t)
    IN  IF Len(full) > max_requests_per_minute THEN Tail(full) ELSE full

\* ------------------------------------------------------------------ lanes

\* The lane _get_next_request pops from, "" when every lane is empty.
NextLaneFrom(q, order) ==
    IF q[order[1]] # <<>> THEN order[1]
    ELSE IF q[order[2]] # <<>> THEN order[2]
    ELSE IF q[order[3]] # <<>> THEN order[3]
    ELSE ""

\* A lane order that serves the normal lane first.
NextLaneNormalFirst(q) == NextLaneFrom(q, <<"normal", "high", "low">>)

NextLane(q) == NextLaneFrom(q, Priorities)

\* A dequeue that leaves the request in its lane.
PeekLeft(lane) == lane

\* deque.popleft(): the lane after it.
PopLeft(lane) == Tail(lane)

\* get_queue_size
GetQueueSize(q) == Len(q["high"]) + Len(q["normal"]) + Len(q["low"])

InLane(q, r) == \E p \in PrioritySet : \E i \in 1..Len(q[p]) : q[p][i] = r

\* --------------------------------------------------------------- Init

\* hist: what the run has done so far, for the properties.
\*   calls        the invocation times within 60 s of the latest invocation
\*   invoked[r]   how often the operation of request r was called
\*   requeued[r]  how often request r was put back into the low lane
\*   last_result[r]  the value last stored in a results dict for request r
\*   expect[r]    the value of the unexpired cache entry (by its own set_cache)
\*                that request r met at the cache check of its first attempt
\*   collapsed    the requests optimize_queues dropped as duplicates
\*   batch_last[w][id]  the last outcome for id in w's batch: "fault", "ok", or
\*                "ok_after_fault" when a fault for id came before it
\*   sets[key]    time, ttl and value of the last set_cache(key, ...)
\*   get          the last direct get_from_cache call and what it returned, until
\*                the next set_cache of its key
\*   waits        how often process_batch slept on the rate limiter since the
\*                last auto_adjust_rates call
\*   provider     how the provider has been called: "executor" by process_batch
\*                after its rate-limit check, "direct" by a requests.get elsewhere
\*   caller       how the last call of a data function ended: "returned" or the
\*                exception it raised
\*   wait_time    the last direct call of _calculate_wait_time: its time and
\*                what it returned
NoGet == [key |-> "", ret |-> NoneVal, raised |-> FALSE, at |-> 0, removed |-> FALSE]

NoWaitTime == [called |-> FALSE, at |-> 0, ret |-> 0]

\* The id of the i-th request of a caller that submits a list of requests.
ListedId(i) == "r" \o ToString(i)

\* optimize_queues is not running.
NoDict == [seen |-> 0, values |-> <<>>]

\* The state after SmartRequestQueueManager(mrpm, interval) and n calls
\* add_request(ListedId(i), f, priority='high').
InitWith(mrpm, interval, n) ==
    /\ max_requests_per_minute = mrpm
    /\ request_interval = interval
    /\ now = StartTime
    /\ queues = [p \in PrioritySet |-> IF p = "high" THEN [i \in 1..n |-> i] ELSE <<>>]
    /\ requests = [i \in 1..n |-> [id |-> ListedId(i), priority |-> "high",
                                    cache_key |-> Absent, ttl |-> DefaultTtl,
                                    status |-> "pending", attempts |-> 0]]
    /\ cache = EmptyDict
    /\ cache_ttl = EmptyDict
    /\ stats = [total_requests |-> n, completed_requests |-> 0, cached_responses |-> 0,
                failed_requests |-> 0, rate_limit_hits |-> 0]
    /\ request_history = <<>>
    /\ lock = "free"
    /\ unique_requests = NoDict
    /\ pc = [w \in Workers |-> "idle"]
    /\ batch = [w \in Workers |-> [batch_size |-> 0, timeout |-> 0, start_time |-> 0]]
    /\ processed = [w \in Workers |-> 0]
    /\ results = [w \in Workers |-> EmptyDict]
    /\ request = [w \in Workers |-> NoRequest]
    /\ wake = [w \in Workers |-> 0]
    /\ request_start = [w \in Workers |-> 0]
    /\ remaining = [w \in Workers |-> 0]
    /\ loaded = [w \in Workers |-> 0]
    /\ request_manager = NoManager
    /\ instances = 0
    /\ caller_pc = [c \in Callers |-> "out"]
    /\ held = [c \in Callers |-> NoManager]
    /\ hist = [calls |-> <<>>, invoked |-> [i \in 1..n |-> 0],
               requeued |-> [i \in 1..n |-> 0], last_result |-> [i \in 1..n |-> ""],
               expect |-> [i \in 1..n |-> ""], collapsed |-> {},
               batch_last |-> [w \in Workers |-> EmptyDict],
               sets |-> EmptyDict, get |-> NoGet, waits |-> 0, provider |-> {},
               caller |-> "", wait_time |-> NoWaitTime]

\* SmartRequestQueueManager(MaxRequestsPerMinute), nothing submitted yet.
Init == InitWith(MaxRequestsPerMinute, DefaultInterval, 0)

\* A worker that keeps the lock it took for the dequeue.
KeepLocked(holder) == IF holder \in Workers THEN holder ELSE "free"

\* The end of a "with self.lock" block entered by holder: the lock after it.
Release(holder) == "free"

\* add_request
AddRequest(request_id, priority, cache_key, ttl) ==
    /\ Len(requests) < MaxItems
    /\ lock = "free"
    /\ requests' = Append(requests, [id |-> request_id, priority |-> priority,
                                     cache_key |-> cache_key, ttl |-> ttl,
                                     status |-> "pending", attempts |-> 0])
    /\ queues' = [queues EXCEPT ![priority] = Append(@, Len(requests) + 1)]
    /\ stats' = [stats EXCEPT !.total_requests = @ + 1]
    /\ hist' = [hist EXCEPT !.invoked = Append(@, 0), !.requeued = Append(@, 0),
                             !.last_result = Append(@, ""), !.expect = Append(@, "")]
    /\ lock' = Release("add_request")
    /\ UNCHANGED <<configVars, moduleVars, now, cacheVars, request_history, unique_requests, workerVars>>

\* ------------------------------------------------------- process_batch

NoBatch == [batch_size |-> 0, timeout |-> 0, start_time |-> 0]

\* A loop that runs until the batch is full, whatever the clock says.
LoopUntilFull(w) == processed[w] < batch[w].batch_size

\* The loop condition of process_batch (line 76).
LoopCondition(w) ==
    processed[w] < batch[w].batch_size /\ now - batch[w].start_time < batch[w].timeout

\* "if request['attempts'] < 3" (line 126), on the incremented counter.
ShouldRequeue(attempts) == attempts < MaxAttempts

\* A handler written for the operation's exceptions only.
CatchesOperationOnly(kind) == kind = "operation"

\* "except Exception" (line 120): what the handler catches.  The faults of the
\* try body are the operation's exception and get_from_cache's KeyError.
Catches(kind) == kind \in {"operation", "KeyError"}

\* A failure counted only once the retries are exhausted.
CountFailureWhenExhausted(st, attempts) ==
    IF ShouldRequeue(attempts) THEN st ELSE [st EXCEPT !.failed_requests = @ + 1]

\* "self.stats['failed_requests'] += 1" (line 123); attempts is the
\* request's incremented counter.
CountFailure(st, attempts) == [st EXCEPT !.failed_requests = @ + 1]

\* process_batch(batch_size, timeout): lines 72-74.
StartBatch(w, batch_size, timeout) ==
    /\ pc[w] = "idle"
    /\ pc' = [pc EXCEPT ![w] = "loop"]
    /\ batch' = [batch EXCEPT ![w] = [batch_size |-> batch_size, timeout |-> timeout,
                                      start_time |-> now]]
    /\ processed' = [processed EXCEPT ![w] = 0]
    /\ results' = [results EXCEPT ![w] = EmptyDict]
    /\ hist' = [hist EXCEPT !.batch_last[w] = EmptyDict]
    /\ UNCHANGED <<configVars, moduleVars, loaded, now, queueVars, cacheVars, stats, request_history, lock,
                   unique_requests, request, wake, request_start, remaining>>

\* The return statement (lines 131-135).
Return(w) ==
    /\ pc' = [pc EXCEPT ![w] = "idle"]
    /\ remaining' = [remaining EXCEPT ![w] = GetQueueSize(queues)]
    /\ request' = [request EXCEPT ![w] = NoRequest]
    /\ batch' = [batch EXCEPT ![w] = NoBatch]

\* The loop condition is false: return.
LoopExit(w) ==
    /\ pc[w] = "loop"
    /\ ~LoopCondition(w)
    /\ Return(w)
    /\ UNCHANGED <<configVars, moduleVars, loaded, now, queueVars, cacheVars, stats, request_history, lock,
                   unique_requests, processed, results, wake, request_start, hist>>

\* _get_next_request under the lock, and "if not request: break".
GetNextRequest(w) ==
    /\ pc[w] = "loop"
    /\ LoopCondition(w)
    /\ lock = "free"
    /\ LET lane == NextLane(queues)
       IN  IF lane = ""
           THEN /\ Return(w)
                /\ UNCHANGED queues
           ELSE /\ request' = [request EXCEPT ![w] = Head(queues[lane])]
                /\ queues' = [queues EXCEPT ![lane] = PopLeft(@)]
                /\ pc' = [pc EXCEPT ![w] = "try"]
                /\ UNCHANGED <<remaining, batch>>
    /\ lock' = Release(w)
    /\ UNCHANGED <<configVars, moduleVars, loaded, now, requests, cacheVars, stats, request_history,
                   unique_requests, processed, results, wake, request_start, hist>>

\* The except branch (lines 120-129) for the request held by w: the request
\* dicts, the lanes, the results and the history after it.
ExceptRequests(r) ==
    [requests EXCEPT ![r].status = "failed", ![r].attempts = @ + 1]

\* A requeue at the tail of the low lane.
ExceptQueuesAtTail(r) ==
    IF ShouldRequeue(requests[r].attempts + 1)
    THEN [queues EXCEPT !["low"] = Append(@, r)]
    ELSE queues

\* A requeue at the head of the lane of the request's own priority.
ExceptQueuesOwnLane(r) ==
    IF ShouldRequeue(requests[r].attempts + 1)
    THEN [queues EXCEPT ![requests[r].priority] = <<r>> \o @]
    ELSE queues

\* An except branch that never requeues.
ExceptQueuesDrop(r) == queues

ExceptQueues(r) ==
    IF ShouldRequeue(requests[r].attempts + 1)
    THEN [queues EXCEPT !["low"] = <<r>> \o @]
    ELSE queues

ExceptHist(h, w, r) ==
    [h EXCEPT !.requeued[r] = IF ShouldRequeue(requests[r].attempts + 1) THEN @ + 1 ELSE @,
              !.last_result[r] = ErrorVal,
              !.batch_last[w] = DictSet(@, requests[r].id, "fault")]

\* The outcome recorded for an id whose request was resolved with a value.
AfterOk(last, id) ==
    IF id \in DOMAIN last /\ last[id] \in {"fault", "ok_after_fault"}
    THEN DictSet(last, id, "ok_after_fault")
    ELSE DictSet(last, id, "ok")

\* A fault in the try body: handled by the except branch, or propagated out
\* of process_batch when the handler does not catch it.
Raise(w, kind, h) ==
    LET r == request[w]
    IN  IF Catches(kind)
        THEN /\ requests' = ExceptRequests(r)
             /\ stats' = CountFailure(stats, requests[r].attempts + 1)
             /\ queues' = ExceptQueues(r)
             /\ results' = [results EXCEPT ![w] = DictSet(@, requests[r].id, ErrorVal)]
             /\ hist' = ExceptHist(h, w, r)
             /\ pc' = [pc EXCEPT ![w] = "loop"]
        ELSE /\ pc' = [pc EXCEPT ![w] = "propagated"]
             /\ hist' = h
             /\ UNCHANGED <<requests, stats, queues, results>>

\* The last set_cache(key, ...) is less than its own ttl old at time t.
Fresh(h, key, t) == key \in DOMAIN h.sets /\ t - h.sets[key].at < h.sets[key].ttl

HistSet(h, key, value, ttl, t) ==
    [h EXCEPT !.sets = DictSet(@, key, [at |-> t, ttl |-> ttl, value |-> value]),
              !.get = IF @.key = key THEN NoGet ELSE @]

\* Lines 84-90: the cache check.
CheckCache(w) ==
    /\ pc[w] = "try"
    /\ LET r == request[w]
           key == requests[r].cache_key
           got == GetFromCache(cache, cache_ttl, key, now)
           counted == [stats EXCEPT !.cached_responses = IF got.hit THEN @ + 1 ELSE @]
           h1 == [hist EXCEPT !.expect[r] = IF requests[r].attempts = 0 /\ Fresh(hist, key, now)
                                            THEN hist.sets[key].value ELSE @]
       IN  IF key = Absent
           THEN /\ pc' = [pc EXCEPT ![w] = "rate"]
                /\ UNCHANGED <<queueVars, cacheVars, stats, processed, results, hist>>
           ELSE /\ cache' = got.cache
                /\ cache_ttl' = got.cache_ttl
                /\ IF got.raised
                   THEN /\ Raise(w, "KeyError", h1)
                        /\ UNCHANGED processed
                   ELSE IF got.ret # NoneVal
                   THEN /\ results' = [results EXCEPT ![w] = DictSet(@, requests[r].id, got.ret)]
                        /\ requests' = [requests EXCEPT ![r].status = "cached"]
                        /\ processed' = [processed EXCEPT ![w] = @ + 1]
                        /\ stats' = counted
                        /\ pc' = [pc EXCEPT ![w] = "loop"]
                        /\ hist' = [h1 EXCEPT !.last_result[r] = got.ret,
                                                !.batch_last[w] = AfterOk(@, requests[r].id)]
                        /\ UNCHANGED queues
                   ELSE /\ stats' = counted
                        /\ pc' = [pc EXCEPT ![w] = "rate"]
                        /\ hist' = h1
                        /\ UNCHANGED <<queueVars, processed, results>>
    /\ UNCHANGED <<configVars, moduleVars, loaded, now, request_history, lock, unique_requests, batch, request, wake,
                   request_start, remaining>>

\* Lines 98-99: the operation is called.
HistInvoke(h, r, t) ==
    [h EXCEPT !.invoked[r] = @ + 1,
              !.calls = Append(SelectSeq(@, LAMBDA c : t - c <= Window), t),
              !.provider = @ \cup {"executor"}]

Invoke(w) ==
    /\ request_start' = [request_start EXCEPT ![w] = now]
    /\ pc' = [pc EXCEPT ![w] = "call"]
    /\ hist' = HistInvoke(hist, request[w], now)

\* Lines 93-95: the rate-limit check; time.sleep(wait_time) when it denies.
CheckRateLimit(w) ==
    /\ pc[w] = "rate"
    /\ LET pruned == Prune(request_history, now)
       IN  /\ request_history' = pruned
           /\ IF CanMakeRequest(pruned)
              THEN /\ Invoke(w)
                   /\ UNCHANGED wake
              ELSE /\ wake' = [wake EXCEPT ![w] = now + CalculateWaitTime(pruned, now)]
                   /\ pc' = [pc EXCEPT ![w] = "sleep"]
                   /\ hist' = [hist EXCEPT !.waits = @ + 1]
                   /\ UNCHANGED request_start
    /\ UNCHANGED <<configVars, moduleVars, loaded, now, queueVars, cacheVars, stats, lock, unique_requests, batch,
                   processed, results, request, remaining>>

\* time.sleep returns, and the operation is called.
Wake(w) ==
    /\ pc[w] = "sleep"
    /\ now >= wake[w]
    /\ Invoke(w)
    /\ wake' = [wake EXCEPT ![w] = 0]
    /\ UNCHANGED <<configVars, moduleVars, loaded, now, queueVars, cacheVars, stats, request_history, lock,
                   unique_requests, batch, processed, results, request, remaining>>

\* Lines 108-113: the value is cached, stored in the results, and the
\* request is marked completed.
ValueReturned(w, outcome) ==
    LET r == request[w]
        key == requests[r].cache_key
    IN  /\ IF key # Absent
           THEN /\ cache' = DictSet(cache, key, outcome)
                /\ cache_ttl' = SetCacheTtl(cache_ttl, key, requests[r].ttl, now)
           ELSE UNCHANGED cacheVars
        /\ results' = [results EXCEPT ![w] = DictSet(@, requests[r].id, outcome)]
        /\ requests' = [requests EXCEPT ![r].status = "completed"]
        /\ hist' = [(IF key # Absent
                      THEN HistSet(hist, key, outcome, requests[r].ttl, now)
                      ELSE hist)
                       EXCEPT !.last_result[r] = outcome,
                              !.batch_last[w] = AfterOk(@, requests[r].id)]

\* "self.stats['completed_requests'] += 1" (line 114): the write of the
\* "+= 1", read being the value of the counter the statement read.
WriteCompleted(st, read) == [st EXCEPT !.completed_requests = read + 1]

\* Lines 114-118: the write of the "+= 1" of completed_requests, processed,
\* and the append to request_history.
CountCompleted(w, read) ==
    /\ stats' = WriteCompleted(stats, read)
    /\ processed' = [processed EXCEPT ![w] = @ + 1]
    /\ request_history' = HistoryAppend(request_history, now)
    /\ pc' = [pc EXCEPT ![w] = "loop"]

\* The operation returns a value (lines 100-118) or raises (lines 120-129),
\* and the thread runs on to the next turn of the loop.
OperationReturns(w, outcome) ==
    /\ pc[w] = "call"
    /\ IF outcome = ErrorVal
       THEN /\ Raise(w, "operation", hist)
            /\ UNCHANGED <<cacheVars, processed, request_history>>
       ELSE /\ ValueReturned(w, outcome)
            /\ CountCompleted(w, stats.completed_requests)
            /\ UNCHANGED queues
    /\ request_start' = [request_start EXCEPT ![w] = 0]
    /\ UNCHANGED <<configVars, moduleVars, loaded, now, lock, unique_requests, batch, request, wake, remaining>>

\* The operation returns a value and the thread is switched out inside
\* line 114, between the read and the write of the "+= 1": the statement is
\* not atomic and no lock is held.
OperationReturnsPreempted(w, outcome) ==
    /\ pc[w] = "call"
    /\ outcome # ErrorVal
    /\ ValueReturned(w, outcome)
    /\ loaded' = [loaded EXCEPT ![w] = stats.completed_requests]
    /\ pc' = [pc EXCEPT ![w] = "store"]
    /\ request_start' = [request_start EXCEPT ![w] = 0]
    /\ UNCHANGED <<configVars, moduleVars, now, queues, stats, request_history, lock, unique_requests,
                   batch, processed, request, wake, remaining>>

\* The thread runs again: the write of line 114, and lines 115-118.
StoreCompleted(w) ==
    /\ pc[w] = "store"
    /\ CountCompleted(w, loaded[w])
    /\ loaded' = [loaded EXCEPT ![w] = 0]
    /\ UNCHANGED <<configVars, moduleVars, now, queueVars, cacheVars, lock, unique_requests, batch,
                   results, request, wake, request_start, remaining, hist>>

\* ------------------------------------------------------ optimize_queues

\* str(cache_key) as the f-string formats it.
Str(cache_key) == IF cache_key = Absent THEN "None" ELSE cache_key

\* f"{request['id']}_{request.get('cache_key', '')}"
RequestKey(r) == requests[r].id \o "_" \o Str(requests[r].cache_key)

\* A dict that keeps the value assigned first.
DedupKeepFirst(lane) ==
    SelectSeq(lane, LAMBDA r : \A j \in 1..Len(lane) :
                  (RequestKey(lane[j]) = RequestKey(r) /\ lane[j] # r) =>
                      \E i \in 1..(j - 1) : lane[i] = r)

\* deque(unique_requests.values()) for one lane: a dict keeps each key at the
\* place of its first insertion and holds the value assigned last.
Dedup(lane) ==
    LET n == Len(lane)
        first == SelectSeq([i \in 1..n |-> i],
                           LAMBDA i : \A j \in 1..(i - 1) :
                                          RequestKey(lane[j]) # RequestKey(lane[i]))
        last(i) == CHOOSE j \in i..n :
                       /\ RequestKey(lane[j]) = RequestKey(lane[i])
                       /\ \A k \in (j + 1)..n : RequestKey(lane[k]) # RequestKey(lane[i])
    IN  [m \in 1..Len(first) |-> lane[last(first[m])]]

Elements(lane) == {lane[i] : i \in 1..Len(lane)}

\* optimize_queues takes the lock, rebuilds the high and normal lanes and
\* runs the loop over the low lane (lines 218-223).  The low lane is the one
\* the except branch of process_batch writes to without the lock.
OptimizeBegin ==
    /\ lock = "free"
    /\ lock' = "optimize_queues"
    /\ queues' = [queues EXCEPT !["high"] = Dedup(@), !["normal"] = Dedup(@)]
    /\ unique_requests' = [seen |-> Len(queues["low"]), values |-> Dedup(queues["low"])]
    /\ hist' = [hist EXCEPT !.collapsed =
                    @ \cup UNION {Elements(queues[p]) \ Elements(Dedup(queues[p])) :
                                      p \in PrioritySet}]
    /\ UNCHANGED <<configVars, moduleVars, now, requests, cacheVars, stats, request_history, workerVars>>

\* The assignment of the rebuilt low lane (line 225) and the release of the lock.
OptimizeEnd ==
    /\ lock = "optimize_queues"
    /\ lock' = "free"
    /\ queues' = [queues EXCEPT !["low"] = unique_requests.values]
    /\ unique_requests' = NoDict
    /\ UNCHANGED <<configVars, moduleVars, now, requests, cacheVars, stats, request_history, workerVars, hist>>

\* The except branch of process_batch put a request into the low lane while
\* the loop of line 221 was going through it: the deque's iterator raises
\* RuntimeError (deque mutated during iteration), optimize_queues is left
\* with the lock released and the low lane as it is.  Whether the loop was
\* still running when the request was put back is not told by the state:
\* both this step and OptimizeEnd are possible then.
OptimizeRaises ==
    /\ lock = "optimize_queues"
    /\ Len(queues["low"]) > unique_requests.seen
    /\ lock' = "free"
    /\ unique_requests' = NoDict
    /\ hist' = [hist EXCEPT !.collapsed = @ \ Elements(queues["low"])]
    /\ UNCHANGED <<configVars, moduleVars, now, queueVars, cacheVars, stats, request_history, workerVars>>

\* ------------------------------------------------- direct cache calls

\* set_cache called by a client of the manager (as get_historical_data_4h does).
SetCache(cache_key, value, ttl) ==
    /\ cache' = DictSet(cache, cache_key, value)
    /\ cache_ttl' = SetCacheTtl(cache_ttl, cache_key, ttl, now)
    /\ hist' = HistSet(hist, cache_key, value, ttl, now)
    /\ UNCHANGED <<configVars, moduleVars, now, queueVars, stats, request_history, lock, unique_requests, workerVars>>

\* get_from_cache called by a client of the manager.
GetCache(cache_key) ==
    LET got == GetFromCache(cache, cache_ttl, cache_key, now)
    IN  /\ stats.cached_responses < MaxHits
        /\ cache' = got.cache
        /\ cache_ttl' = got.cache_ttl
        /\ stats' = [stats EXCEPT !.cached_responses = IF got.hit THEN @ + 1 ELSE @]
        /\ hist' = [hist EXCEPT !.get = [key |-> cache_key, ret |-> got.ret,
                                         raised |-> got.raised, at |-> now,
                                         removed |-> cache_key \notin DOMAIN got.cache]]
        /\ UNCHANGED <<configVars, moduleVars, now, queueVars, request_history, lock, unique_requests, workerVars>>

\* ------------------------------------------- get_status, auto_adjust_rates

\* The dict get_status returns, h being the pruned history.  'efficiency' and
\* 'avg_response_time' are floats no code reads and are left out.
GetStatus(st, h, q, c) ==
    [queues |-> [p \in PrioritySet |-> Len(q[p])],
     total_pending |-> GetQueueSize(q),
     completed |-> st.completed_requests,
     failed |-> st.failed_requests,
     cached |-> st.cached_responses,
     rate_limit_hits |-> st.rate_limit_hits,
     requests_last_minute |-> Len(h),
     cache_size |-> Cardinality(DOMAIN c)]

\* request_interval * 1.2 and request_interval * 0.95, on milliseconds, the
\* fraction of a millisecond dropped.
Slower(interval) == (interval * 12) \div 10
Faster(interval) == (interval * 95) \div 100

\* "stats['rate_limit_hits'] > 5" (line 231)
SeesPressure(status) == status.rate_limit_hits > HitsThreshold

\* auto_adjust_rates, with the pruning of request_history by get_status.
AutoAdjustRates ==
    LET pruned == Prune(request_history, now)
        status == GetStatus(stats, pruned, queues, cache)
    IN  /\ request_history' = pruned
        /\ request_interval' =
              IF SeesPressure(status)
              THEN Min(MaxInterval, Slower(request_interval))
              ELSE IF status.rate_limit_hits = 0 /\ status.completed > CompletedThreshold
              THEN Max(MinInterval, Faster(request_interval))
              ELSE request_interval
        /\ hist' = [hist EXCEPT !.waits = 0]
        /\ UNCHANGED <<max_requests_per_minute, moduleVars, now, queueVars, cacheVars, stats, lock,
                       unique_requests, workerVars>>

\* ------------------------------------------- the callers of the provider

\* get_historical_data_4h(coin_id, queue_manager) of ma_analysis.py.  With a
\* queue manager line 33 calls get_from_cache(cache_key, ttl=600), a keyword
\* get_from_cache does not take: TypeError, raised before the try block.
\* Without one (the default, and what main.py passes through
\* calculate_ma_indicators) lines 54-56 call requests.get themselves.
GetHistoricalData4h(queue_manager) ==
    /\ hist' = IF queue_manager
               THEN [hist EXCEPT !.caller = "TypeError"]
               ELSE [hist EXCEPT !.caller = "returned", !.provider = @ \cup {"direct"}]
    /\ UNCHANGED <<configVars, moduleVars, now, queueVars, cacheVars, stats, request_history, lock,
                   unique_requests, workerVars>>

\* get_historical_data_optimized of coingecko_api.py: line 90 calls
\* queue_manager.execute_with_retry, a method SmartRequestQueueManager does
\* not have: AttributeError, and fetch_historical is never called.
GetHistoricalDataOptimized ==
    /\ hist' = [hist EXCEPT !.caller = "AttributeError"]
    /\ UNCHANGED <<configVars, moduleVars, now, queueVars, cacheVars, stats, request_history, lock,
                   unique_requests, workerVars>>

\* ------------------------------------------------------------------ time

\* The clock advances while every worker is between batches, asleep or
\* waiting for its operation to return.
Quiet == lock = "free" /\ \A w \in Workers : pc[w] \in {"idle", "sleep", "call"}

Tick(d) ==
    /\ Quiet
    /\ now + d <= StartTime + Horizon
    /\ now' = now + d
    /\ UNCHANGED <<configVars, moduleVars, queueVars, cacheVars, stats, request_history, lock, unique_requests,
                   workerVars, hist>>

\* The clock passes the default ttl of get_from_cache.
LongTick ==
    /\ Quiet
    /\ now <= StartTime + Horizon
    /\ now' = now + DefaultTtl
    /\ UNCHANGED <<configVars, moduleVars, queueVars, cacheVars, stats, request_history, lock, unique_requests,
                   workerVars, hist>>

\* The clock reaches the end of a worker's sleep.
TickToWake(w) ==
    /\ Quiet
    /\ pc[w] = "sleep"
    /\ wake[w] > now
    /\ now' = wake[w]
    /\ UNCHANGED <<configVars, moduleVars, queueVars, cacheVars, stats, request_history, lock, unique_requests,
                   workerVars, hist>>

\* The ids a caller passes: only equality of ids matters, so a new id is the
\* first one not used yet.
UsedIds == {requests[r].id : r \in 1..Len(requests)}
NextIds == UsedIds \cup (IF UsedIds = {} THEN {"a"} ELSE IF UsedIds = {"a"} THEN {"b"} ELSE {})

\* The steps of a thread that calls process_batch.
LoopSteps(w) ==
    \/ LoopExit(w)
    \/ GetNextRequest(w)
    \/ CheckCache(w)
    \/ CheckRateLimit(w)
    \/ Wake(w)

WorkerNext ==
    \/ \E w \in MainWorkers, n \in BatchSizes, t \in Timeouts : StartBatch(w, n, t)
    \/ \E w \in MainWorkers : LoopSteps(w)
    \/ \E w \in MainWorkers, o \in Outcomes : OperationReturns(w, o)

TimeNext ==
    \/ \E d \in TickSteps : Tick(d)
    \/ \E w \in Workers : TickToWake(w)

\* The manager with callers of add_request and a thread in process_batch.
Next ==
    \/ \E i \in NextIds, p \in PrioritySet, k \in CacheKeys, t \in Ttls : AddRequest(i, p, k, t)
    \/ WorkerNext
    \/ TimeNext

Spec == Init /\ [][Next]_vars

\* The manager with a thread that calls optimize_queues.
NextOpt ==
    \/ Next
    \/ OptimizeBegin
    \/ OptimizeEnd
    \/ OptimizeRaises

SpecOpt == Init /\ [][NextOpt]_vars

\* The manager with requests of one cache key and a client that calls the
\* cache directly with the key of that key's ttl slot; the clock can also
\* pass the default ttl.
FaultKey == "X"

NextFaults ==
    \/ \E i \in NextIds, t \in Ttls : AddRequest(i, "normal", FaultKey, t)
    \/ WorkerNext
    \/ TimeNext
    \/ \E t \in Ttls : SetCache(TtlKey(FaultKey), "data", t)
    \/ GetCache(TtlKey(FaultKey))
    \/ LongTick

SpecFaults == Init /\ [][NextFaults]_vars

\* The cache alone, called directly, with a key and the key of its ttl slot.
DirectKeys == {"X", "X_ttl"}
DirectValues == {"data", NoneVal}
DirectTtls == {300, 600}

NextCache ==
    \/ \E k \in DirectKeys, v \in DirectValues, t \in DirectTtls : SetCache(k, v, t)
    \/ \E k \in DirectKeys : GetCache(k)
    \/ \E d \in TickSteps : Tick(d)

SpecCache == Init /\ [][NextCache]_vars

\* A manager built with max_requests_per_minute=10, 50 high-priority requests
\* whose operation always returns data, and one call process_batch(50, 120).
Scenario == [max_requests_per_minute |-> 10, items |-> 50, batch_size |-> 50,
             timeout |-> 1200]

InitScenario == InitWith(Scenario.max_requests_per_minute, DefaultInterval, Scenario.items)

NextScenario ==
    \/ \E w \in MainWorkers :
          /\ stats.completed_requests = 0
          /\ StartBatch(w, Scenario.batch_size, Scenario.timeout)
    \/ \E w \in MainWorkers : LoopSteps(w)
    \/ \E w \in MainWorkers : OperationReturns(w, "data")
    \/ TimeNext

SpecScenario == InitScenario /\ [][NextScenario]_vars

\* A manager built with any request_interval, a list of requests whose
\* operation returns data, a thread that runs batches and a thread that calls
\* auto_adjust_rates.
ListLength == 22
ConstructorIntervals == {500, 1500, 2800, 5000}

InitRates ==
    \E interval \in ConstructorIntervals :
        InitWith(MaxRequestsPerMinute, interval, ListLength)

NextRates ==
    \/ \E w \in MainWorkers, t \in Timeouts : StartBatch(w, ListLength, t)
    \/ \E w \in MainWorkers : LoopSteps(w)
    \/ \E w \in MainWorkers : OperationReturns(w, "data")
    \/ \E w \in MainWorkers : TickToWake(w)
    \/ AutoAdjustRates

SpecRates == InitRates /\ [][NextRates]_vars

\* The manager with requests that have no cache key, and the data functions
\* of ma_analysis.py and coingecko_api.py called beside it.
NextCallers ==
    \/ \E i \in NextIds, t \in Ttls : AddRequest(i, "normal", Absent, t)
    \/ WorkerNext
    \/ TimeNext
    \/ \E m \in BOOLEAN : GetHistoricalData4h(m)
    \/ GetHistoricalDataOptimized

SpecCallers == Init /\ [][NextCallers]_vars

\* Two threads in process_batch at once, on requests of the high lane without
\* cache key; a thread can be switched out inside line 114.
NextRace ==
    \/ \E i \in NextIds, t \in Ttls : AddRequest(i, "high", Absent, t)
    \/ \E w \in Workers, n \in BatchSizes, t \in Timeouts : StartBatch(w, n, t)
    \/ \E w \in Workers : LoopSteps(w)
    \/ \E w \in Workers, o \in {"data", ErrorVal} : OperationReturns(w, o)
    \/ \E w \in Workers : OperationReturnsPreempted(w, "data")
    \/ \E w \in Workers : StoreCompleted(w)
    \/ TimeNext

SpecRace == Init /\ [][NextRace]_vars

\* The manager with callers of add_request and one call of process_batch:
\* the call is made on a manager that has not processed a request yet.
NothingProcessed == \A r \in 1..Len(requests) : requests[r].status = "pending"

NextOneBatch ==
    \/ \E i \in NextIds, p \in PrioritySet, k \in CacheKeys, t \in Ttls : AddRequest(i, p, k, t)
    \/ \E w \in MainWorkers, n \in BatchSizes, t \in Timeouts :
          /\ NothingProcessed
          /\ StartBatch(w, n, t)
    \/ \E w \in MainWorkers : LoopSteps(w)
    \/ \E w \in MainWorkers, o \in Outcomes : OperationReturns(w, o)
    \/ TimeNext

SpecOneBatch == Init /\ [][NextOneBatch]_vars

\* _calculate_wait_time() called on the manager as it stands.
CalculateWaitTimeCall ==
    /\ hist' = [hist EXCEPT !.wait_time = [called |-> TRUE, at |-> now,
                                              ret |-> CalculateWaitTime(request_history, now)]]
    /\ UNCHANGED <<configVars, moduleVars, now, queueVars, cacheVars, stats, request_history, lock,
                   unique_requests, workerVars>>

\* A manager built with max_requests_per_minute=2 and three requests, a
\* thread that runs batches, and a caller of _calculate_wait_time.
WaitScenario == [max_requests_per_minute |-> 2, items |-> 3]

InitWait == InitWith(WaitScenario.max_requests_per_minute, DefaultInterval, WaitScenario.items)

NextWait ==
    \/ \E w \in MainWorkers, n \in BatchSizes, t \in Timeouts : StartBatch(w, n, t)
    \/ \E w \in MainWorkers : LoopSteps(w)
    \/ \E w \in MainWorkers, o \in {"data", ErrorVal} : OperationReturns(w, o)
    \/ TimeNext
    \/ CalculateWaitTimeCall

SpecWait == InitWait /\ [][NextWait]_vars

\* The manager with callers of add_request whose ids and cache keys contain
\* the "_" of the composite key or spell "None", and a thread that calls
\* optimize_queues.
DedupIds == {"a", "a_b"}
DedupKeys == {Absent, "None", "c", "b_c"}

NextDedup ==
    \/ \E i \in DedupIds, p \in PrioritySet, k \in DedupKeys, t \in Ttls : AddRequest(i, p, k, t)
    \/ OptimizeBegin
    \/ OptimizeEnd

SpecDedup == Init /\ [][NextDedup]_vars

\* ----------------------------------------------------- get_request_manager

\* Line 244, "if _request_manager is None": the thread reads the global.
CheckManager(c) ==
    /\ caller_pc[c] = "out"
    /\ caller_pc' = [caller_pc EXCEPT ![c] = IF request_manager = NoManager
                                              THEN "create" ELSE "return"]
    /\ UNCHANGED <<request_manager, instances, held>>

\* Line 245: the thread constructs a manager and assigns it to the global.
\* No lock is held between the test of line 244 and this assignment.
CreateManager(c) ==
    /\ caller_pc[c] = "create"
    /\ instances' = instances + 1
    /\ request_manager' = instances + 1
    /\ caller_pc' = [caller_pc EXCEPT ![c] = "return"]
    /\ UNCHANGED held

\* Line 246: the thread returns what the global holds now.
ReturnManager(c) ==
    /\ caller_pc[c] = "return"
    /\ held' = [held EXCEPT ![c] = request_manager]
    /\ caller_pc' = [caller_pc EXCEPT ![c] = "out"]
    /\ UNCHANGED <<request_manager, instances>>

\* Threads that call get_request_manager, as the sessions of main.py do.
NextSingleton ==
    /\ \E c \in Callers : CheckManager(c) \/ CreateManager(c) \/ ReturnManager(c)
    /\ UNCHANGED <<configVars, now, queueVars, cacheVars, stats, request_history, lock,
                   unique_requests, workerVars, hist>>

SpecSingleton == Init /\ [][NextSingleton]_vars

\* Requests are submitted to a manager at rest, and then one thread calls
\* process_batch with a batch_size of at least the number of queued requests
\* and a timeout of 600 s; nothing is submitted while the batch runs.
DrainTimeouts == {6000}

AtRest == NothingProcessed /\ \A w \in Workers : pc[w] = "idle"

NextDrain ==
    \/ \E i \in NextIds, p \in PrioritySet, k \in CacheKeys, t \in Ttls :
          /\ AtRest
          /\ AddRequest(i, p, k, t)
    \/ \E w \in MainWorkers, n \in BatchSizes, t \in DrainTimeouts :
          /\ AtRest
          /\ n >= GetQueueSize(queues)
          /\ StartBatch(w, n, t)
    \/ \E w \in MainWorkers : LoopSteps(w)
    \/ \E w \in MainWorkers, o \in Outcomes : OperationReturns(w, o)
    \/ TimeNext

SpecDrain == Init /\ [][NextDrain]_vars

\* The thread in process_batch keeps running, every operation it calls
\* returns or raises, and every time.sleep ends.
DrainFairness ==
    \A w \in MainWorkers :
        /\ WF_vars(LoopSteps(w))
        /\ WF_vars(\E o \in Outcomes : OperationReturns(w, o))
        /\ WF_vars(TickToWake(w))

SpecDrainFair == SpecDrain /\ DrainFairness

\* ================================================================ claims

\* C1: in every 60-second window the number of operation invocations,
\* failed and retried ones included, is at most max_requests_per_minute.
\* hist.calls holds the invocation times of the 60 s up to the latest call.
C1_CallsPerWindowBounded == Len(hist.calls) <= max_requests_per_minute

\* C2: _get_next_request pops the head of the high lane whenever that lane
\* is non-empty, of the normal lane only when high is empty, of the low lane
\* only when high and normal are empty, and returns None only when all three
\* lanes are empty.
Dequeues(w) == pc[w] = "loop" /\ LoopCondition(w) /\ pc'[w] # "loop"

PopsFrom(w, lane) ==
    /\ queues[lane] # <<>>
    /\ request'[w] = Head(queues[lane])
    /\ queues' = [queues EXCEPT ![lane] = Tail(@)]

C2_StrictPriority ==
    [][\A w \in Workers : Dequeues(w) =>
          /\ queues["high"] # <<>> => PopsFrom(w, "high")
          /\ (queues["high"] = <<>> /\ queues["normal"] # <<>>) => PopsFrom(w, "normal")
          /\ (queues["high"] = <<>> /\ queues["normal"] = <<>> /\ queues["low"] # <<>>)
                => PopsFrom(w, "low")
          /\ (request'[w] = NoRequest) <=> (GetQueueSize(queues) = 0)]_vars

\* A normal-lane request has been dequeued ahead of a low-lane request that
\* was submitted before it.
C2_Witness ==
    \E w \in Workers :
        /\ pc[w] = "try"
        /\ requests[request[w]].priority = "normal"
        /\ requests[request[w]].attempts = 0
        /\ queues["low"] # <<>>
        /\ Head(queues["low"]) < request[w]

\* C3: a get_from_cache made less than ttl after the set_cache of its key
\* returns the stored value; one made at ttl or later returns None and the
\* entry is gone.
C3_GetHonoursTtl ==
    LET g == hist.get
    IN  g.key \in DOMAIN hist.sets =>
            LET s == hist.sets[g.key]
            IN  IF g.at - s.at < s.ttl
                THEN ~g.raised /\ g.ret = s.value
                ELSE ~g.raised /\ g.ret = NoneVal /\ g.removed

\* C9: a request that meets, at the cache check of its first attempt, an
\* unexpired entry stored for its cache_key by an earlier successful request
\* is resolved with that value and its operation is never called.
C9_ServedFromCache ==
    \A r \in 1..Len(requests) :
        hist.expect[r] # "" =>
            /\ hist.invoked[r] = 0
            /\ requests[r].status = "cached"
            /\ hist.last_result[r] = hist.expect[r]

\* ------------------------------------------------- notions of the claims

Submitted == 1..Len(requests)

\* Request r has been dequeued by a worker that has not yet resolved it.
Held(r) == \E w \in Workers : request[w] = r /\ pc[w] \in {"try", "rate", "sleep", "call"}

\* The operation of request r is being called.
InCall(r) == \E w \in Workers : request[w] = r /\ pc[w] = "call"

\* Request r has its terminal result: a value, or the error of its last attempt.
Terminal(r) ==
    \/ requests[r].status \in {"cached", "completed"}
    \/ requests[r].attempts >= MaxAttempts

\* The number of places request r takes in the three lanes.
Occurrences(r) ==
    Cardinality({<<p, i>> \in PrioritySet \X (1..MaxItems + 1) :
                    i <= Len(queues[p]) /\ queues[p][i] = r})

RECURSIVE SumAttempts(_)
SumAttempts(n) == IF n = 0 THEN 0 ELSE requests[n].attempts + SumAttempts(n - 1)

\* C4: a request whose operation has failed at every call is called at most
\* 3 times; its attempts counter counts its failed calls and never
\* decreases; it has been requeued once per failure short of the third; and
\* once it has failed 3 times it has been called exactly 3 times, is in no
\* lane, is held by no worker and is not called again.
OnlyFailed(r) == requests[r].status \in {"pending", "failed"}

C4_State ==
    \A r \in Submitted : OnlyFailed(r) =>
        /\ hist.invoked[r] <= MaxAttempts
        /\ hist.invoked[r] = requests[r].attempts + (IF InCall(r) THEN 1 ELSE 0)
        /\ hist.requeued[r] = (IF requests[r].attempts < MaxAttempts
                               THEN requests[r].attempts ELSE MaxAttempts - 1)
        /\ requests[r].attempts < MaxAttempts => (InLane(queues, r) \/ Held(r))
        /\ requests[r].attempts >= MaxAttempts =>
              /\ hist.invoked[r] = MaxAttempts
              /\ ~InLane(queues, r)
              /\ ~Held(r)

C4_Step ==
    \A r \in Submitted :
        /\ requests'[r].attempts >= requests[r].attempts
        /\ requests[r].attempts >= MaxAttempts => hist'.invoked[r] = hist.invoked[r]

C4_RetryBound == []C4_State /\ [][C4_Step]_vars

\* A request has failed three times and has been given up.
C4_Witness ==
    \E r \in Submitted :
        /\ requests[r].attempts = MaxAttempts
        /\ hist.invoked[r] = MaxAttempts
        /\ hist.requeued[r] = MaxAttempts - 1
        /\ ~InLane(queues, r)

\* C5: every submitted request that has no terminal result and was not
\* dropped as a duplicate by optimize_queues is in exactly one place of the
\* lanes or held by a worker.
C5_NoRequestLost ==
    \A r \in Submitted :
        (~Terminal(r) /\ r \notin hist.collapsed) =>
            Occurrences(r) + (IF Held(r) THEN 1 ELSE 0) = 1

\* C6: no operation is started by a batch once timeout has elapsed since the
\* batch started.
C6_NoCallAfterTimeout ==
    \A w \in Workers :
        pc[w] = "call" => request_start[w] - batch[w].start_time < batch[w].timeout

C8_ErrorsOnlyWhenExhausted ==
    \A w \in Workers :
        pc[w] = "idle" =>
            \A id \in DOMAIN results[w] :
                results[w][id] = ErrorVal =>
                    \E r \in Submitted :
                        requests[r].id = id /\ requests[r].attempts >= MaxAttempts

\* C10: a request whose operation failed twice and succeeded at the third
\* call has the value of the third call as its result, in the results of the
\* batch that made the call as long as no other request of the same id
\* follows; the failed counter was incremented twice for it and the completed
\* counter once.
FailedTwiceThenSucceeded(r) == requests[r].status = "completed" /\ hist.invoked[r] = 3

CompletedCount == Cardinality({r \in Submitted : requests[r].status = "completed"})

C10_RetrySucceeds ==
    \A r \in Submitted : FailedTwiceThenSucceeded(r) =>
        /\ requests[r].attempts = 2
        /\ hist.last_result[r] \in Outcomes \ {ErrorVal}
        /\ \A w \in Workers : (request[w] = r /\ pc[w] = "loop") =>
               results[w][requests[r].id] = hist.last_result[r]
        /\ stats.failed_requests = SumAttempts(Len(requests))
        /\ stats.completed_requests = CompletedCount

\* The only request submitted failed twice and then succeeded: the counters
\* read 2 and 1 and the results hold its value.
C10_Witness ==
    \E w \in Workers :
        /\ Len(requests) = 1
        /\ FailedTwiceThenSucceeded(1)
        /\ stats.failed_requests = 2
        /\ stats.completed_requests = 1
        /\ pc[w] = "idle"
        /\ requests[1].id \in DOMAIN results[w]
        /\ results[w][requests[1].id] = "data"
\* process_batch returns: the step from the loop to the return statement.
Returns(w) == pc[w] = "loop" /\ pc'[w] = "idle"

Successes(res) == Cardinality({id \in DOMAIN res : res[id] # ErrorVal})

\* C11 as stated: in the scenario the batch returns with processed = 50,
\* 50 successes in its results, and after at least (50/10 - 1) * 60 s.
C11_AllProcessedAtLimitedRate ==
    [][\A w \in Workers : Returns(w) =>
          /\ processed[w] = Scenario.items
          /\ Successes(results[w]) = Scenario.items
          /\ now - batch[w].start_time >=
                 ((Scenario.items \div Scenario.max_requests_per_minute) - 1) * Window]_vars

\* C11 amended: in the scenario the timeout ends the batch first.  At return
\* processed is at most 21 (max_requests_per_minute calls per 60 s begun
\* before the timeout, and the one that slept past it), the results hold
\* exactly processed successes, the other 50 - processed requests are still
\* queued, and at least timeout has elapsed.
C11_TimeoutEndsBatch ==
    [][\A w \in Workers : Returns(w) =>
          /\ processed[w] <= (Scenario.timeout \div Window) * Scenario.max_requests_per_minute + 1
          /\ processed[w] < Scenario.items
          /\ Successes(results[w]) = processed[w]
          /\ Cardinality(DOMAIN results[w]) = processed[w]
          /\ remaining'[w] = Scenario.items - processed[w]
          /\ now - batch[w].start_time >= Scenario.timeout]_vars

\* The batch of the scenario has returned with 21 processed and 29 queued.
C11_Witness ==
    \E w \in Workers :
        /\ pc[w] = "idle"
        /\ processed[w] = 21
        /\ remaining[w] = 29
        /\ Len(requests) = Scenario.items
        /\ now >= StartTime + Scenario.timeout
\* optimize_queues has taken the lock and built the three lanes' dicts.
OptimizeRuns == lock = "free" /\ lock' = "optimize_queues"

\* What optimize_queues makes of lane p.
Rebuilt(p) == IF p = "low" THEN unique_requests'.values ELSE queues'[p]

Pair(r) == <<requests[r].id, requests[r].cache_key>>

OnePerPair(lane) ==
    \A i, j \in 1..Len(lane) : Pair(lane[i]) = Pair(lane[j]) => i = j

\* C12 as stated: after optimize_queues a lane holds at most one request per
\* (id, cache_key) pair, of the requests with the same pair the one
\* submitted last is kept, and optimize_queues on the result changes nothing.
\* Requests are numbered in the order of their submission.
C12_KeepsLastSubmitted ==
    [][OptimizeRuns => \A p \in PrioritySet :
          /\ OnePerPair(Rebuilt(p))
          /\ \A r \in Elements(queues[p]) : \E k \in Elements(Rebuilt(p)) :
                 /\ Pair(k) = Pair(r)
                 /\ \A x \in Elements(queues[p]) : Pair(x) = Pair(r) => x <= k
          /\ Dedup(Rebuilt(p)) = Rebuilt(p)]_vars

\* C12 amended: after optimize_queues a lane holds at most one request per
\* (id, cache_key) pair, of the requests with the same composite key the one
\* last in the lane's order is kept (a requeued request stands at the head of
\* the low lane, before requests submitted earlier), and optimize_queues on
\* the result changes nothing.
C12_KeepsLastSeen ==
    [][OptimizeRuns => \A p \in PrioritySet :
          /\ OnePerPair(Rebuilt(p))
          /\ Elements(Rebuilt(p)) \subseteq Elements(queues[p])
          /\ \A i \in 1..Len(queues[p]) : \E k \in Elements(Rebuilt(p)) :
                 /\ RequestKey(k) = RequestKey(queues[p][i])
                 /\ \E j \in i..Len(queues[p]) :
                        /\ queues[p][j] = k
                        /\ \A m \in (j + 1)..Len(queues[p]) :
                               RequestKey(queues[p][m]) # RequestKey(k)
          /\ Dedup(Rebuilt(p)) = Rebuilt(p)]_vars

\* optimize_queues has dropped a request in favour of one with the same pair
\* that was submitted before it.
C12_Witness ==
    /\ lock = "free"
    /\ \E r \in hist.collapsed : \E k \in Elements(queues["low"]) :
           Pair(k) = Pair(r) /\ k < r
\* C13: whenever process_batch finds the rate limiter denying a call and
\* goes to sleep, the rate_limit_hits counter that get_status reports
\* increases by one.
C13_WaitsAreCounted ==
    [][\A w \in Workers : (pc[w] = "rate" /\ pc'[w] = "sleep") =>
          GetStatus(stats', request_history', queues', cache').rate_limit_hits
              = GetStatus(stats, request_history, queues, cache).rate_limit_hits + 1]_vars

\* C14: auto_adjust_rates makes request_interval 20% longer, 3.0 s at most,
\* exactly when process_batch has waited on the rate limiter more than 5
\* times since the previous auto_adjust_rates call; makes it 5% shorter,
\* 1.0 s at least, exactly when it has not waited and more than 20 requests
\* have completed; and leaves it unchanged otherwise.
C14_AdjustsOnPressure ==
    [][AutoAdjustRates =>
          request_interval' =
              IF hist.waits > HitsThreshold
              THEN Min(MaxInterval, Slower(request_interval))
              ELSE IF hist.waits = 0 /\ stats.completed_requests > CompletedThreshold
              THEN Max(MinInterval, Faster(request_interval))
              ELSE request_interval]_vars

\* C15: request_interval is within [1.0, 3.0] seconds in every state.
C15_IntervalWithinBounds ==
    MinInterval <= request_interval /\ request_interval <= MaxInterval
\* C16: the provider is called only by process_batch, as the operation of
\* a request, after the rate-limit check.
C16_ProviderBehindRateLimiter == hist.provider \subseteq {"executor"}
Counted == CompletedCount - Cardinality({w \in Workers : pc[w] = "store"})

\* C18: the counters never decrease and lose no increment: total_requests
\* counts the add_request calls, completed_requests the calls of an operation
\* that returned, failed_requests the attempts that failed.
C18_CountersState ==
    /\ stats.total_requests = Len(requests)
    /\ stats.completed_requests = Counted
    /\ stats.failed_requests = SumAttempts(Len(requests))

C18_CountersStep ==
    /\ stats'.total_requests >= stats.total_requests
    /\ stats'.completed_requests >= stats.completed_requests
    /\ stats'.failed_requests >= stats.failed_requests
    /\ stats'.cached_responses >= stats.cached_responses
    /\ stats'.rate_limit_hits >= stats.rate_limit_hits

C18_CountersExact == []C18_CountersState /\ [][C18_CountersStep]_vars
\* The request w holds has a cache key and get_from_cache returns a value
\* for it.
CacheHit(w) ==
    /\ pc[w] = "try"
    /\ requests[request[w]].cache_key # Absent
    /\ LET got == GetFromCache(cache, cache_ttl, requests[request[w]].cache_key, now)
       IN  ~got.raised /\ got.ret # NoneVal

C20_MutationsUnderLock ==
    [][(lock = "optimize_queues" /\ (queues' # queues \/ request_history' # request_history))
          => lock' = "free"]_vars
\* A caller of add_request can take the lock and enqueue its request.
CanSubmit ==
    ENABLED (\E i \in NextIds, p \in PrioritySet, k \in CacheKeys, t \in Ttls :
                 AddRequest(i, p, k, t))

\* C21: process_batch does not hold self.lock while it sleeps on the rate
\* limiter or while an operation runs: in every such state no worker holds
\* the lock, and a caller of add_request can take it and enqueue.
C21_LockFreeWhileWaiting ==
    \A w \in Workers :
        pc[w] \in {"sleep", "call"} =>
            /\ lock # w
            /\ (lock # "optimize_queues" /\ Len(requests) < MaxItems) => CanSubmit

\* An operation has been running for a while, and add_request can go ahead.
C21_Witness ==
    \E w \in Workers :
        /\ pc[w] = "call"
        /\ now > request_start[w]
        /\ Len(requests) < MaxItems
        /\ CanSubmit
\* x stands before y in the lane.
Before(lane, x, y) ==
    \E i, j \in 1..Len(lane) : i < j /\ lane[i] = x /\ lane[j] = y

\* The requests that come into lane p with the step.
Entering(p) == Elements(queues'[p]) \ Elements(queues[p])

\* The requests that are in lane p before and after the step.
Staying(p) == Elements(queues'[p]) \cap Elements(queues[p])

\* A worker's dequeue takes the head of a lane.
TakesHead ==
    \A w \in Workers :
        (request'[w] # request[w] /\ request'[w] # NoRequest) =>
            \E p \in PrioritySet : queues[p] # <<>> /\ Head(queues[p]) = request'[w]

Replaced(y) == \E c \in hist'.collapsed : RequestKey(c) = RequestKey(y)

Fails(r) == r <= Len(requests) /\ requests'[r].attempts = requests[r].attempts + 1

\* The step is the dequeue of request r by worker w.
DequeuesRequest(w, r) == request[w] # r /\ request'[w] = r

\* The step is the call of the operation of request r by worker w.
Executes(w, r) == pc[w] # "call" /\ pc'[w] = "call" /\ request'[w] = r

HigherLanesEmpty == queues["high"] = <<>> /\ queues["normal"] = <<>>

\* A failure with attempts left puts the request at the head of the low
\* lane, whatever the priority it was submitted with, and in no other lane;
\* a failure without attempts left puts it in no lane.
RequeuedAtHeadOfLow ==
    \A r \in 1..Len(requests) :
        Fails(r) =>
            /\ \A p \in {"high", "normal"} : r \notin Elements(queues'[p])
            /\ IF requests'[r].attempts < MaxAttempts
               THEN Head(queues'["low"]) = r
               ELSE r \notin Elements(queues'["low"])

RECURSIVE SumInvoked(_)
SumInvoked(n) == IF n = 0 THEN 0 ELSE hist.invoked[n] + SumInvoked(n - 1)

\* The dequeues made since the manager was built: one per failed attempt,
\* one per request resolved with a value, one per request a worker holds.
DequeuedSoFar ==
    SumAttempts(Len(requests))
    + Cardinality({r \in Submitted : requests[r].status \in {"cached", "completed"}})
    + Cardinality({r \in Submitted : Held(r)})

\* C24: while the one call process_batch(batch_size = N) runs, it has
\* dequeued at most N requests and called at most N operations.
C24_BatchProcessesAtMostN ==
    \A w \in MainWorkers :
        pc[w] # "idle" =>
            /\ DequeuedSoFar <= batch[w].batch_size
            /\ SumInvoked(Len(requests)) <= batch[w].batch_size
\* The limit is reached: the history pruned to the last 60 s holds
\* max_requests_per_minute entries.
LimitReached(h, t) == Len(Prune(h, t)) >= max_requests_per_minute

\* C25: _calculate_wait_time returns max(0, 60 s - (now - oldest) + margin)
\* when the limit is reached, and 0 in every other state.
C25_WaitTimeZeroBelowLimit ==
    [][hist'.wait_time # hist.wait_time =>
          hist'.wait_time.ret =
              IF LimitReached(request_history, now)
              THEN Max(0, (Window - (now - Head(Prune(request_history, now)))) + Margin)
              ELSE 0]_vars
\* What the manager stores for cache key k: its value, its stored time and
\* its ttl, "" where a slot is empty.
Entry(c, ct, k) ==
    [value |-> IF k \in DOMAIN c THEN c[k] ELSE "",
     at |-> IF k \in DOMAIN ct THEN ToString(ct[k]) ELSE "",
     ttl |-> IF TtlKey(k) \in DOMAIN ct THEN ToString(ct[TtlKey(k)]) ELSE ""]

\* The step is a set_cache or a get_from_cache of key k.
OnKey(k) ==
    \/ k \in DOMAIN hist'.sets /\ (k \notin DOMAIN hist.sets \/ hist'.sets[k] # hist.sets[k])
    \/ hist'.get # hist.get /\ hist'.get.key = k

\* C26: a set_cache or a get_from_cache of one key leaves the value, the
\* stored time and the ttl of every other key that has an entry as they are,
\* and no get_from_cache raises.
C26_KeysIndependent ==
    [][\A k2 \in DirectKeys :
          OnKey(k2) =>
              /\ ~hist'.get.raised
              /\ \A k1 \in (DirectKeys \ {k2}) \cap DOMAIN cache :
                     Entry(cache', cache_ttl', k1) = Entry(cache, cache_ttl, k1)]_vars
\* C27: optimize_queues keeps in its lane every request whose (id,
\* cache_key) pair differs from the pair of every other request of the lane.
C27_OnlyTrueDuplicatesRemoved ==
    [][OptimizeRuns => \A p \in PrioritySet : \A r \in Elements(queues[p]) :
          (\A x \in Elements(queues[p]) \ {r} : Pair(x) # Pair(r)) =>
              r \in Elements(Rebuilt(p))]_vars
\* C28: at most one SmartRequestQueueManager is ever created by
\* get_request_manager, and no two callers hold different instances.
C28_SingleInstance ==
    /\ instances <= 1
    /\ \A c1, c2 \in Callers :
           (held[c1] # NoManager /\ held[c2] # NoManager) => held[c1] = held[c2]
\* process_batch returns with everything resolved.
ReturnsDrained ==
    \A w \in MainWorkers :
        (Returns(w) /\ now - batch[w].start_time < batch[w].timeout) =>
            /\ remaining'[w] = 0
            /\ \A p \in PrioritySet : queues'[p] = <<>>
            /\ \A r \in Submitted :
                   /\ requests[r].id \in DOMAIN results'[w]
                   /\ Terminal(r)

\* C29: a process_batch call with batch_size of at least the number of
\* queued requests, no submissions while it runs and a timeout it does not
\* reach, returns; at the return the three lanes are empty, 'remaining' is 0,
\* the id of every request is a key of the results, and every request has
\* been resolved with a value or has failed 3 times.
C29_BatchDrains ==
    /\ [][ReturnsDrained]_vars
    /\ \A w \in MainWorkers : (pc[w] # "idle") ~> (pc[w] = "idle")

\* A batch has returned with a value served from the cache, and a batch has
\* returned with the error of a request that failed 3 times.
C29_Witness ==
    \E w \in MainWorkers :
        /\ pc[w] = "idle"
        /\ Len(requests) = MaxItems
        /\ \A r \in Submitted : requests[r].id \in DOMAIN results[w]
        /\ \E r \in Submitted : requests[r].status = "cached"
        /\ \E r \in Submitted : hist.requeued[r] >= 1
\* C30: the operation of a request that met, at the cache check of its first
\* attempt, an unexpired entry for its cache_key is never called, whatever
\* value the entry holds, None included.
C30_ServedWhateverValue ==
    \A r \in Submitted :
        hist.expect[r] \in Outcomes \ {ErrorVal} => hist.invoked[r] = 0
====
